---- MODULE Spec2Model ----
(***************************************************************************)
(* Edit-overlay system of the kidney biopsy report generator front end.    *)
(*                                                                         *)
(* A text is a JavaScript string, modelled as a sequence of one-character  *)
(* strings in which NL is the newline character.  String.split('\n') and   *)
(* Array.join('\n') are the operators Split and Join below.                *)
(*                                                                         *)
(* Specifications:                                                         *)
(*   Spec         the Home component: React state, the debounce timer with *)
(*                the closure it captured, the generation requests in      *)
(*                flight;                                                  *)
(*   SpecFn       the pure functions detectEdits and applyEditOverlay      *)
(*                applied to inputs drawn from bounded sets;               *)
(*   SpecApply    applyEditOverlay on overlays and additions of any origin;*)
(*   SpecResolve  the back end's map_code on bounded mappings and codes;   *)
(*   SpecAssemble the back end's treatment of one shorthand line;          *)
(*   SpecAssembleText the back end's treatment of a shorthand of several   *)
(*                lines, with the validation notes it reports;             *)
(*   SpecFormat   the back end's format_entries on bounded entry lists.    *)
(***************************************************************************)
EXTENDS Integers, Sequences, FiniteSets, TLC

VARIABLES
    shorthandText,    \* useState('')            page state, line 35
    generatedReport,  \* useState('')            line 36  (the spec's currentText)
    isGenerating,     \* useState(false)         line 37
    editOverlay,      \* useState(new Map())     line 40
    manualAdditions,  \* useState([])            line 41
    isEditMode,       \* useState(false)         line 42
    lineMappings,     \* useState([])            line 43
    editableReport,   \* useState('')            line 44  (the spec's editableText)
    timer,            \* <<>> or <<closure>>: the pending setTimeout of the effect
    inflight,         \* the axios.post calls awaiting their response, oldest first;
                      \* seen is history: the captured edits when the call was made
    lastEvent,        \* history: the handler that ran last and what it saw
    captured,         \* history: line |-> text of captured edits not re-edited since
    steps,            \* history: the number of events handled so far
    fnPc, fnOriginal, fnEdited, fnMappings, fnBase,
    fnOverlay, fnAdditions, fnResult,  \* SpecFn: inputs and results of the pure functions
    bePc,             \* the back end: which function has run
    beMappings, beCode, beMapped,  \* SimpleMapper: self.mappings, map_code's argument and result
    beLine, beAssembled,           \* one shorthand line and the report text made of it
    beEntries, beFormatted,        \* ReportFormatter: format_entries' argument and result
    beShorthand, beReport, beNotes \* /api/generate: the raw shorthand, the report text and
                                   \* the lines a validation note is reported for

uiVars == <<shorthandText, generatedReport, isGenerating, editOverlay,
            manualAdditions, isEditMode, lineMappings, editableReport,
            timer, inflight, lastEvent, captured, steps>>
fnVars == <<fnPc, fnOriginal, fnEdited, fnMappings, fnBase,
            fnOverlay, fnAdditions, fnResult>>
beVars == <<bePc, beMappings, beCode, beMapped, beLine, beAssembled, beEntries, beFormatted,
            beShorthand, beReport, beNotes>>
vars == <<uiVars, fnVars, beVars>>

----------------------------------------------------------------------------
(* Bounds *)

MaxLines == 3       \* the user adds lines to the textarea up to this many
MaxInFlight == 2    \* most generation requests outstanding at once
MaxSteps == 11      \* most events of one run of the component
MaxFnLines == 3     \* most lines of a text given to the pure functions
MaxCodeLen == 4     \* most characters of a code given to map_code
MaxLineLen == 6     \* most characters of a shorthand line given to the back end
MaxEntries == 4     \* most entries given to format_entries

----------------------------------------------------------------------------
(* Strings *)

NL == "\n"
EmptyText == <<>>

Min(a, b) == IF a < b THEN a ELSE b
Max(a, b) == IF a > b THEN a ELSE b

\* String.prototype.split('\n'): '' splits into [''].
RECURSIVE Split(_)
Split(s) ==
    IF s = <<>> THEN << <<>> >>
    ELSE IF Head(s) = NL THEN << <<>> >> \o Split(Tail(s))
    ELSE LET r == Split(Tail(s)) IN << <<Head(s)>> \o r[1] >> \o Tail(r)

\* Array.prototype.join('\n')
RECURSIVE Join(_)
Join(ls) ==
    IF ls = <<>> THEN <<>>
    ELSE IF Len(ls) = 1 THEN ls[1]
    ELSE ls[1] \o <<NL>> \o Join(Tail(ls))

IsSpace(c) == c \in {" ", NL}

\* String.prototype.trim()
RECURSIVE TrimStart(_)
TrimStart(s) ==
    IF s # <<>> /\ IsSpace(Head(s)) THEN TrimStart(Tail(s)) ELSE s

RECURSIVE TrimEnd(_)
TrimEnd(s) ==
    IF s # <<>> /\ IsSpace(s[Len(s)]) THEN TrimEnd(SubSeq(s, 1, Len(s) - 1)) ELSE s

Trim(s) == TrimEnd(TrimStart(s))

\* JavaScript truthiness of a string
Truthy(s) == s # <<>>

----------------------------------------------------------------------------
(* detectEdits, utils/editDetector.ts *)

EmptyOverlay == [n \in {} |-> <<>>]

\* A slip of the lookup: the array index is used where the line number is meant.
RECURSIVE LineToSourceByIndex(_, _)
LineToSourceByIndex(mappings, lineNumber) ==
    IF mappings = <<>> THEN ""
    ELSE LET last == mappings[Len(mappings)] IN
         IF last.line_number + 1 = lineNumber THEN last.source_code
         ELSE LineToSourceByIndex(SubSeq(mappings, 1, Len(mappings) - 1), lineNumber)

\* lineToSource.get(lineNumber) || '' : forEach/set keeps the last mapping of a line
RECURSIVE LineToSource(_, _)
LineToSource(mappings, lineNumber) ==
    IF mappings = <<>> THEN ""
    ELSE LET last == mappings[Len(mappings)] IN
         IF last.line_number = lineNumber THEN last.source_code
         ELSE LineToSource(SubSeq(mappings, 1, Len(mappings) - 1), lineNumber)

\* A slip of the loop: the entry is keyed by the array index, not the line number.
DetectOverlayZeroBased(originalLines, editedLines, mappings) ==
    LET minLength == Min(Len(originalLines), Len(editedLines)) IN
    [lineNumber \in {i - 1 : i \in {j \in 1..minLength : originalLines[j] # editedLines[j]}} |->
        [originalText |-> originalLines[lineNumber + 1],
         editedText   |-> editedLines[lineNumber + 1],
         sourceCode   |-> LineToSource(mappings, lineNumber),
         lineNumber   |-> lineNumber]]

\* A slip of the loop bound: the loop runs to the longer text, a missing
\* edited line counting as empty.
DetectOverlayMaxLength(originalLines, editedLines, mappings) ==
    LET At(ls, i) == IF i <= Len(ls) THEN ls[i] ELSE <<>>
        maxLength == Max(Len(originalLines), Len(editedLines))
    IN [lineNumber \in {i \in 1..maxLength : At(originalLines, i) # At(editedLines, i)} |->
          [originalText |-> At(originalLines, lineNumber),
           editedText   |-> At(editedLines, lineNumber),
           sourceCode   |-> LineToSource(mappings, lineNumber),
           lineNumber   |-> lineNumber]]

\* A slip of the loop: the comparison is left out, every common line is recorded.
DetectOverlayAll(originalLines, editedLines, mappings) ==
    LET minLength == Min(Len(originalLines), Len(editedLines)) IN
    [lineNumber \in 1..minLength |->
        [originalText |-> originalLines[lineNumber],
         editedText   |-> editedLines[lineNumber],
         sourceCode   |-> LineToSource(mappings, lineNumber),
         lineNumber   |-> lineNumber]]

\* A slip of the entry: lineNumber holds the array index, the key the line number.
DetectOverlayIndexField(originalLines, editedLines, mappings) ==
    LET minLength == Min(Len(originalLines), Len(editedLines)) IN
    [lineNumber \in {i \in 1..minLength : originalLines[i] # editedLines[i]} |->
        [originalText |-> originalLines[lineNumber],
         editedText   |-> editedLines[lineNumber],
         sourceCode   |-> LineToSource(mappings, lineNumber),
         lineNumber   |-> lineNumber - 1]]

DetectOverlay(originalLines, editedLines, mappings) ==
    LET minLength == Min(Len(originalLines), Len(editedLines)) IN
    [lineNumber \in {i \in 1..minLength : originalLines[i] # editedLines[i]} |->
        [originalText |-> originalLines[lineNumber],
         editedText   |-> editedLines[lineNumber],
         sourceCode   |-> LineToSource(mappings, lineNumber),
         lineNumber   |-> lineNumber]]

\* A slip of the loop: each addition is anchored at its own index.
DetectAdditionsByIndex(originalLines, editedLines) ==
    IF Len(editedLines) > Len(originalLines)
    THEN [k \in 1..(Len(editedLines) - Len(originalLines)) |->
            [afterLine |-> Len(originalLines) + k - 1,
             text      |-> editedLines[Len(originalLines) + k]]]
    ELSE <<>>

\* A slip of the loop: unshift where push is meant, the additions come out reversed.
DetectAdditionsReversed(originalLines, editedLines) ==
    IF Len(editedLines) > Len(originalLines)
    THEN [k \in 1..(Len(editedLines) - Len(originalLines)) |->
            [afterLine |-> Len(originalLines),
             text      |-> editedLines[Len(editedLines) + 1 - k]]]
    ELSE <<>>

DetectAdditions(originalLines, editedLines) ==
    IF Len(editedLines) > Len(originalLines)
    THEN [k \in 1..(Len(editedLines) - Len(originalLines)) |->
            [afterLine |-> Len(originalLines),
             text      |-> editedLines[Len(originalLines) + k]]]
    ELSE <<>>

detectEdits(originalReport, editedReport, mappings) ==
    LET originalLines == Split(originalReport)
        editedLines   == Split(editedReport)
    IN [editOverlay     |-> DetectOverlay(originalLines, editedLines, mappings),
        manualAdditions |-> DetectAdditions(originalLines, editedLines)]

----------------------------------------------------------------------------
(* applyEditOverlay, the Home component *)

\* A slip of the lookup: an entry is used only while the baseline line still
\* is the entry's originalText.
ApplyEditsIfOriginal(lines, overlay) ==
    [i \in 1..Len(lines) |->
        IF i \in DOMAIN overlay /\ overlay[i].originalText = lines[i]
        THEN overlay[i].editedText ELSE lines[i]]

\* A slip of the loop: the entries are written into the line array, which
\* grows to the largest line number of the overlay.
ApplyEditsByEntry(lines, overlay) ==
    LET top == IF DOMAIN overlay = {} THEN 0
               ELSE CHOOSE n \in DOMAIN overlay : \A m \in DOMAIN overlay : m <= n
    IN [i \in 1..Max(Len(lines), top) |->
          IF i \in DOMAIN overlay THEN overlay[i].editedText
          ELSE IF i <= Len(lines) THEN lines[i] ELSE <<>>]

\* lines.map(...): overlay.get(index + 1) decides, by line number alone
ApplyEdits(lines, overlay) ==
    [i \in 1..Len(lines) |->
        IF i \in DOMAIN overlay THEN overlay[i].editedText ELSE lines[i]]

\* [...additions].sort((a, b) => a.afterLine - b.afterLine): a stable sort
RECURSIVE InsertSorted(_, _)
InsertSorted(sorted, a) ==
    IF sorted = <<>> THEN <<a>>
    ELSE IF sorted[Len(sorted)].afterLine <= a.afterLine THEN Append(sorted, a)
    ELSE Append(InsertSorted(SubSeq(sorted, 1, Len(sorted) - 1), a), sorted[Len(sorted)])

\* A slip: the additions are not sorted before they are inserted.
SortAdditionsNone(additions) == additions

RECURSIVE SortAdditions(_)
SortAdditions(additions) ==
    IF additions = <<>> THEN <<>>
    ELSE InsertSorted(SortAdditions(SubSeq(additions, 1, Len(additions) - 1)),
                      additions[Len(additions)])

\* A slip of the call: splice(start, 1, item) replaces the line at start.
SpliceReplace(arr, start, item) ==
    LET s0 == IF start < 0 THEN Max(Len(arr) + start, 0) ELSE Min(start, Len(arr))
    IN SubSeq(arr, 1, s0) \o <<item>> \o SubSeq(arr, s0 + 2, Len(arr))

\* Array.prototype.splice(start, 0, item): start is clamped to 0..length,
\* a negative start counts from the end
Splice(arr, start, item) ==
    LET s0 == IF start < 0 THEN Max(Len(arr) + start, 0) ELSE Min(start, Len(arr))
    IN SubSeq(arr, 1, s0) \o <<item>> \o SubSeq(arr, s0 + 1, Len(arr))

\* A slip of the loop: the offset is not advanced after an insertion.
RECURSIVE InsertAdditionsNoOffset(_, _, _)
InsertAdditionsNoOffset(result, sortedAdditions, offset) ==
    IF sortedAdditions = <<>> THEN result
    ELSE InsertAdditionsNoOffset(
            Splice(result, Head(sortedAdditions).afterLine + offset,
                   Head(sortedAdditions).text),
            Tail(sortedAdditions), offset)

\* A slip of the loop: every addition is pushed to the end of the report.
RECURSIVE InsertAdditionsAtEnd(_, _, _)
InsertAdditionsAtEnd(result, sortedAdditions, offset) ==
    IF sortedAdditions = <<>> THEN result
    ELSE InsertAdditionsAtEnd(Append(result, Head(sortedAdditions).text),
                              Tail(sortedAdditions), offset + 1)

\* A slip of the loop: an addition anchored past the end is skipped.
RECURSIVE InsertAdditionsSkipStale(_, _, _)
InsertAdditionsSkipStale(result, sortedAdditions, offset) ==
    IF sortedAdditions = <<>> THEN result
    ELSE IF Head(sortedAdditions).afterLine + offset > Len(result)
         THEN InsertAdditionsSkipStale(result, Tail(sortedAdditions), offset)
         ELSE InsertAdditionsSkipStale(
                 Splice(result, Head(sortedAdditions).afterLine + offset,
                        Head(sortedAdditions).text),
                 Tail(sortedAdditions), offset + 1)

\* for (const addition of sortedAdditions) { splice(afterLine + offset); offset++ }
RECURSIVE InsertAdditions(_, _, _)
InsertAdditions(result, sortedAdditions, offset) ==
    IF sortedAdditions = <<>> THEN result
    ELSE InsertAdditions(
            Splice(result, Head(sortedAdditions).afterLine + offset,
                   Head(sortedAdditions).text),
            Tail(sortedAdditions), offset + 1)

\* A slip: blank lines are filtered out of the result.
applyEditOverlayDropBlank(baseReport, overlay, additions) ==
    LET lines       == Split(baseReport)
        editedLines == ApplyEdits(lines, overlay)
    IN Join(SelectSeq(InsertAdditions(editedLines, SortAdditions(additions), 0),
                      LAMBDA l : l # <<>>))

applyEditOverlay(baseReport, overlay, additions) ==
    LET lines       == Split(baseReport)
        editedLines == ApplyEdits(lines, overlay)
    IN Join(InsertAdditions(editedLines, SortAdditions(additions), 0))

----------------------------------------------------------------------------
(* The generation boundary: POST /api/generate.  The server expands every   *)
(* shorthand line to its phrase and reports the code each line came from.   *)

Phrase(line) ==
    IF line = <<"a">> THEN <<"A">>
    ELSE IF line = <<"b">> THEN <<"B">>
    ELSE line

ReportText(shorthand) ==
    LET ls == Split(shorthand) IN Join([i \in 1..Len(ls) |-> Phrase(ls[i])])

ReportLineMappings(shorthand) ==
    LET ls == Split(shorthand) IN
    [i \in 1..Len(ls) |-> [line_number |-> i, source_code |-> ls[i]]]

\* what the user can put into the shorthand box
ShorthandTexts == { <<>>, <<" ">>, <<"a">>, <<"a", NL, "b">> }

\* what the user types into one line of the report textarea
TypedLines == { <<>>, <<"X">> }

\* what one change event of the textarea can make of its text: a line
\* retyped, a line added at the end, or the last line removed
UserEdits(text) ==
    LET ls == Split(text) IN
      { Join([ls EXCEPT ![i] = l]) : i \in 1..Len(ls), l \in TypedLines }
      \cup (IF Len(ls) < MaxLines
            THEN { Join(Append(ls, l)) : l \in TypedLines } ELSE {})
      \cup (IF Len(ls) > 1
            THEN { Join(SubSeq(ls, 1, Len(ls) - 1)) } ELSE {})

----------------------------------------------------------------------------
(* The Home component *)

\* the render whose effect armed the timer: generateReport and
\* captureCurrentEdits close over the state of that render
Closure(s) ==
    [shorthandText   |-> s,
     isEditMode      |-> isEditMode,
     generatedReport |-> generatedReport,
     editableReport  |-> editableReport,
     lineMappings    |-> lineMappings,
     editOverlay     |-> editOverlay,
     manualAdditions |-> manualAdditions]

\* captureCurrentEdits, evaluated in the closure c
WillCapture(c) ==
    c.isEditMode /\ Truthy(c.generatedReport) /\ Truthy(c.editableReport)

captureCurrentEdits(c) ==
    IF WillCapture(c)
    THEN LET d == detectEdits(c.generatedReport, c.editableReport, c.lineMappings)
         IN [newOverlay |-> d.editOverlay, newAdditions |-> d.manualAdditions]
    ELSE [newOverlay |-> c.editOverlay, newAdditions |-> c.manualAdditions]

\* history: the edited text of every overlay entry
EditsOf(overlay) == [n \in DOMAIN overlay |-> overlay[n].editedText]

\* history: f overridden by g
Override(f, g) ==
    [n \in DOMAIN f \cup DOMAIN g |-> IF n \in DOMAIN g THEN g[n] ELSE f[n]]

\* history: the lines on which two texts differ
ChangedLines(t1, t2) ==
    LET l1 == Split(t1)
        l2 == Split(t2)
    IN { n \in 1..Max(Len(l1), Len(l2)) :
            n > Len(l1) \/ n > Len(l2) \/ l1[n] # l2[n] }

\* history: f without the lines of S
Without(f, S) == [n \in DOMAIN f \ S |-> f[n]]

RemoveAt(q, i) == SubSeq(q, 1, i - 1) \o SubSeq(q, i + 1, Len(q))

UIInit ==
    /\ shorthandText = EmptyText
    /\ generatedReport = EmptyText
    /\ isGenerating = FALSE
    /\ editOverlay = EmptyOverlay
    /\ manualAdditions = <<>>
    /\ isEditMode = FALSE
    /\ lineMappings = <<>>
    /\ editableReport = EmptyText
    /\ timer = <<>>
    /\ inflight = <<>>
    /\ lastEvent = "init"
    /\ captured = EmptyOverlay
    /\ steps = 0

FnIdle ==
    /\ fnPc = "off"
    /\ fnOriginal = EmptyText
    /\ fnEdited = EmptyText
    /\ fnMappings = <<>>
    /\ fnBase = EmptyText
    /\ fnOverlay = EmptyOverlay
    /\ fnAdditions = <<>>
    /\ fnResult = EmptyText

BeIdle ==
    /\ bePc = "off"
    /\ beMappings = <<>>
    /\ beCode = <<>>
    /\ beMapped = <<>>
    /\ beLine = <<>>
    /\ beAssembled = <<>>
    /\ beEntries = <<>>
    /\ beFormatted = <<>>
    /\ beShorthand = <<>>
    /\ beReport = <<>>
    /\ beNotes = {}

Init == UIInit /\ FnIdle /\ BeIdle

\* ShorthandInput onChange / Load Example: setShorthandText, then the effect
\* on [shorthandText]: the old timer is cleared; a blank text empties the
\* report, any other text arms a new timer
SetShorthandText(s) ==
    /\ s # shorthandText
    /\ shorthandText' = s
    /\ IF ~Truthy(Trim(s))
       THEN /\ generatedReport' = EmptyText
            /\ timer' = <<>>
       ELSE /\ generatedReport' = generatedReport
            /\ timer' = <<Closure(s)>>
    /\ lastEvent' = "setShorthandText"
    /\ UNCHANGED <<isGenerating, editOverlay, manualAdditions, isEditMode,
                   lineMappings, editableReport, inflight, captured>>

\* the timer fires: generateReport() up to the await
GenerateReport ==
    /\ timer # <<>>
    /\ Len(inflight) < MaxInFlight
    /\ LET c == timer[1] IN
       IF ~Truthy(Trim(c.shorthandText))
       THEN /\ generatedReport' = EmptyText
            /\ editableReport' = EmptyText
            /\ UNCHANGED <<editOverlay, manualAdditions, isGenerating, inflight, captured>>
       ELSE LET cap == captureCurrentEdits(c) IN
            /\ IF WillCapture(c)
               THEN /\ editOverlay' = cap.newOverlay
                    /\ manualAdditions' = cap.newAdditions
                    /\ captured' = Override(captured, EditsOf(cap.newOverlay))
               ELSE UNCHANGED <<editOverlay, manualAdditions, captured>>
            /\ isGenerating' = TRUE
            /\ inflight' = Append(inflight,
                                  [shorthand_text |-> c.shorthandText,
                                   newOverlay     |-> cap.newOverlay,
                                   newAdditions   |-> cap.newAdditions,
                                   seen           |-> captured'])
            /\ UNCHANGED <<generatedReport, editableReport>>
    /\ timer' = <<>>
    /\ lastEvent' = "generateReport"
    /\ UNCHANGED <<shorthandText, isEditMode, lineMappings>>

\* A slip of the condition: the overlay is applied only when it has entries.
FinalReportOverlayOnly(req) ==
    IF Cardinality(DOMAIN req.newOverlay) > 0
    THEN applyEditOverlay(ReportText(req.shorthand_text), req.newOverlay, req.newAdditions)
    ELSE ReportText(req.shorthand_text)

\* A slip of the argument: the text on display is used as the baseline.
FinalReportOnPrevious(req) ==
    IF Cardinality(DOMAIN req.newOverlay) > 0 \/ Len(req.newAdditions) > 0
    THEN applyEditOverlay(generatedReport, req.newOverlay, req.newAdditions)
    ELSE ReportText(req.shorthand_text)

\* what generateReport makes of a response
FinalReport(req) ==
    IF Cardinality(DOMAIN req.newOverlay) > 0 \/ Len(req.newAdditions) > 0
    THEN applyEditOverlay(ReportText(req.shorthand_text), req.newOverlay, req.newAdditions)
    ELSE ReportText(req.shorthand_text)

\* the response of request i arrives: generateReport() after the await
ResponseSuccess(i) ==
    /\ i \in 1..Len(inflight)
    /\ LET req == inflight[i] IN
       /\ lineMappings' = ReportLineMappings(req.shorthand_text)
       /\ generatedReport' = FinalReport(req)
       /\ editableReport' = FinalReport(req)
    /\ isGenerating' = FALSE
    /\ inflight' = RemoveAt(inflight, i)
    /\ lastEvent' = "responseSuccess"
    /\ UNCHANGED <<shorthandText, editOverlay, manualAdditions, isEditMode,
                   timer, captured>>

\* A slip of the catch block: the report is emptied when the request fails.
ResponseFailureClears(i) ==
    /\ i \in 1..Len(inflight)
    /\ isGenerating' = FALSE
    /\ generatedReport' = EmptyText
    /\ editableReport' = EmptyText
    /\ inflight' = RemoveAt(inflight, i)
    /\ lastEvent' = "responseFailure"
    /\ UNCHANGED <<shorthandText, editOverlay, manualAdditions,
                   isEditMode, lineMappings, timer, captured>>

\* request i fails: catch and finally
ResponseFailure(i) ==
    /\ i \in 1..Len(inflight)
    /\ isGenerating' = FALSE
    /\ inflight' = RemoveAt(inflight, i)
    /\ lastEvent' = "responseFailure"
    /\ UNCHANGED <<shorthandText, generatedReport, editOverlay, manualAdditions,
                   isEditMode, lineMappings, editableReport, timer, captured>>

\* A slip of the handler: the overlay and the additions are not reset.
HandleClearKeepsEdits ==
    /\ shorthandText' = EmptyText
    /\ generatedReport' = EmptyText
    /\ editableReport' = EmptyText
    /\ lineMappings' = <<>>
    /\ isEditMode' = FALSE
    /\ timer' = <<>>
    /\ captured' = EmptyOverlay
    /\ lastEvent' = "handleClear"
    /\ UNCHANGED <<isGenerating, inflight, editOverlay, manualAdditions>>

\* the Clear button; the effect on [shorthandText] clears the timer
HandleClear ==
    /\ shorthandText' = EmptyText
    /\ generatedReport' = EmptyText
    /\ editableReport' = EmptyText
    /\ editOverlay' = EmptyOverlay
    /\ manualAdditions' = <<>>
    /\ lineMappings' = <<>>
    /\ isEditMode' = FALSE
    /\ timer' = <<>>
    /\ captured' = EmptyOverlay
    /\ lastEvent' = "handleClear"
    /\ UNCHANGED <<isGenerating, inflight>>

\* the textarea's onChange; the textarea is rendered when report && isEditMode
HandleReportEdit(editedText) ==
    /\ Truthy(generatedReport)
    /\ isEditMode
    /\ editedText # editableReport
    /\ editableReport' = editedText
    /\ captured' = Without(captured, ChangedLines(editableReport, editedText))
    /\ lastEvent' = "handleReportEdit"
    /\ UNCHANGED <<shorthandText, generatedReport, isGenerating, editOverlay,
                   manualAdditions, isEditMode, lineMappings, timer, inflight>>

\* A slip of the handler: leaving edit mode does not capture the edits.
ToggleEditModeNoCapture ==
    /\ Truthy(generatedReport)
    /\ lastEvent' = (IF isEditMode THEN "toggleToView" ELSE "toggleToEdit")
    /\ isEditMode' = ~isEditMode
    /\ UNCHANGED <<shorthandText, generatedReport, isGenerating, lineMappings,
                   editableReport, timer, inflight, editOverlay, manualAdditions,
                   captured>>

\* the Edit Report / View Only button, rendered when report is not empty
ToggleEditMode ==
    /\ Truthy(generatedReport)
    /\ IF isEditMode
       THEN LET d == detectEdits(generatedReport, editableReport, lineMappings) IN
            /\ editOverlay' = d.editOverlay
            /\ manualAdditions' = d.manualAdditions
            /\ captured' = Override(captured, EditsOf(d.editOverlay))
            /\ lastEvent' = "toggleToView"
       ELSE /\ UNCHANGED <<editOverlay, manualAdditions, captured>>
            /\ lastEvent' = "toggleToEdit"
    /\ isEditMode' = ~isEditMode
    /\ UNCHANGED <<shorthandText, generatedReport, isGenerating, lineMappings,
                   editableReport, timer, inflight>>

\* one more event of the run
Tick ==
    /\ steps < MaxSteps
    /\ steps' = steps + 1
    /\ UNCHANGED <<fnVars, beVars>>

Next ==
    \/ \E s \in ShorthandTexts : SetShorthandText(s) /\ Tick
    \/ GenerateReport /\ Tick
    \/ \E i \in 1..MaxInFlight : ResponseSuccess(i) /\ Tick
    \/ \E i \in 1..MaxInFlight : ResponseFailure(i) /\ Tick
    \/ HandleClear /\ Tick
    \/ \E t \in UserEdits(editableReport) : HandleReportEdit(t) /\ Tick
    \/ ToggleEditMode /\ Tick

Spec == Init /\ [][Next]_vars

----------------------------------------------------------------------------
(* The pure functions on bounded inputs *)

FnLines == { <<>>, <<"A">>, <<"B">> }
FnTexts == { Join(ls) : ls \in UNION { [1..k -> FnLines] : k \in 1..MaxFnLines } }

FnMappings ==
    { <<>>,
      << [line_number |-> 1, source_code |-> "a"] >>,
      << [line_number |-> 1, source_code |-> "a"],
         [line_number |-> 2, source_code |-> "b"] >>,
      << [line_number |-> 2, source_code |-> "b"],
         [line_number |-> 2, source_code |-> "c"] >> }

\* the scenario of the design notes
ScenarioBaseline    == Join(<< <<"A">>, <<"B">>, <<"C">> >>)
ScenarioEdited      == Join(<< <<"A">>, <<"X">>, <<"C">>, <<"D">> >>)
ScenarioNewBaseline == Join(<< <<"A">>, <<"B">>, <<"C">>, <<"E">> >>)

\* the baselines an overlay detected on original is applied to
FnBases(original) ==
    { original, original \o <<NL, "E">>, <<"B">>, EmptyText }

FnInit ==
    /\ UIInit
    /\ BeIdle
    /\ fnPc = "input"
    /\ \E p \in (FnTexts \X FnTexts) \cup { <<ScenarioBaseline, ScenarioEdited>> } :
          /\ fnOriginal = p[1]
          /\ fnEdited = p[2]
    /\ fnMappings \in FnMappings
    /\ fnBase = EmptyText
    /\ fnOverlay = EmptyOverlay
    /\ fnAdditions = <<>>
    /\ fnResult = EmptyText

\* const { editOverlay, manualAdditions } = detectEdits(original, edited, mappings)
FnDetect ==
    /\ fnPc = "input"
    /\ LET d == detectEdits(fnOriginal, fnEdited, fnMappings) IN
       /\ fnOverlay' = d.editOverlay
       /\ fnAdditions' = d.manualAdditions
    /\ fnPc' = "detected"
    /\ UNCHANGED <<fnOriginal, fnEdited, fnMappings, fnBase, fnResult, uiVars, beVars>>

\* applyEditOverlay(base, editOverlay, manualAdditions)
FnApply(base) ==
    /\ fnPc = "detected"
    /\ fnBase' = base
    /\ fnResult' = applyEditOverlay(base, fnOverlay, fnAdditions)
    /\ fnPc' = "applied"
    /\ UNCHANGED <<fnOriginal, fnEdited, fnMappings, fnOverlay, fnAdditions, uiVars, beVars>>

FnNext ==
    \/ FnDetect
    \/ \E base \in FnBases(fnOriginal) : FnApply(base)

SpecFn == FnInit /\ [][FnNext]_vars

----------------------------------------------------------------------------
(* applyEditOverlay on overlays and additions of any origin, also stale ones *)

ApplyLines == { <<"A">>, <<"B">> }
ApplyTexts ==
    { EmptyText } \cup
    { Join(ls) : ls \in UNION { [1..k -> ApplyLines] : k \in 1..MaxFnLines } }

\* an entry for line n; the baseline line need not be its originalText
ApplyEntry(n, text) ==
    [originalText |-> <<"A">>, editedText |-> text, sourceCode |-> "", lineNumber |-> n]

\* overlays with keys up to one past the longest baseline
ApplyOverlays ==
    UNION { [S -> { <<>>, <<"X">> }] : S \in SUBSET (1..(MaxFnLines + 1)) }

\* at most two additions, anchored anywhere from 0 to one past the longest baseline
ApplyAdditionSet ==
    { [afterLine |-> a, text |-> t] : a \in 0..(MaxFnLines + 1), t \in { <<"P">>, <<"Q">> } }
ApplyAdditionLists ==
    { <<>> } \cup { <<a>> : a \in ApplyAdditionSet }
             \cup { <<a, b>> : a \in ApplyAdditionSet, b \in ApplyAdditionSet }

ApplyInit ==
    /\ UIInit
    /\ BeIdle
    /\ fnPc = "detected"
    /\ fnOriginal \in ApplyTexts
    /\ fnEdited = EmptyText
    /\ fnMappings = <<>>
    /\ fnBase = EmptyText
    /\ \E f \in ApplyOverlays :
          fnOverlay = [n \in DOMAIN f |-> ApplyEntry(n, f[n])]
    /\ fnAdditions \in ApplyAdditionLists
    /\ fnResult = EmptyText

\* applyEditOverlay(baseline, overlay, additions)
ApplyNext == FnApply(fnOriginal)

SpecApply == ApplyInit /\ [][ApplyNext]_vars

----------------------------------------------------------------------------
(* The back end's expansion engine: SimpleMapper.map_code.  self.mappings   *)
(* is the flat table of phrases_flat.json in file order: a static code, a   *)
(* regular expression after the prefix ~, or a section header after the     *)
(* prefix !.  A key is a sequence of characters in which a capturing group  *)
(* of the regular expression is one element.                                *)

\* str.upper() on the letters the model's codes are written in
UpperChar(c) ==
    CASE c = "a" -> "A" [] c = "g" -> "G" [] c = "m" -> "M" [] c = "e" -> "E"
      [] OTHER -> c
Upper(s) == [i \in 1..Len(s) |-> UpperChar(s[i])]

GroupDigits == "(\\d+)"
GroupWord == "(\\w+)"
Digits == { "0", "1", "2", "3", "4", "5", "6", "7", "8", "9" }
\* the characters of the model that \w does not match
NonWord == { " ", "!", "@", "~", "{", "}", "=", "/", NL }

IsGroup(atom) == atom \in { GroupDigits, GroupWord }
InClass(atom, c) == IF atom = GroupDigits THEN c \in Digits ELSE c \notin NonWord

\* the length of the longest prefix of s a group can take
RECURSIVE RunLength(_, _)
RunLength(atom, s) ==
    IF s # <<>> /\ InClass(atom, Head(s)) THEN 1 + RunLength(atom, Tail(s)) ELSE 0

NoMatch == [ok |-> FALSE, groups |-> <<>>]

\* re.match(pattern, s): the pattern must match at the start of s, not to its
\* end; a group is greedy and gives back characters when the rest fails
RECURSIVE Match(_, _)
Match(pattern, s) ==
    IF pattern = <<>> THEN [ok |-> TRUE, groups |-> <<>>]
    ELSE IF IsGroup(Head(pattern))
    THEN LET fits == { k \in 1..RunLength(Head(pattern), s) :
                          Match(Tail(pattern), SubSeq(s, k + 1, Len(s))).ok }
         IN IF fits = {} THEN NoMatch
            ELSE LET k == CHOOSE n \in fits : \A o \in fits : o <= n
                 IN [ok     |-> TRUE,
                     groups |-> << SubSeq(s, 1, k) >>
                                \o Match(Tail(pattern), SubSeq(s, k + 1, Len(s))).groups]
    ELSE IF s # <<>> /\ Head(s) = Head(pattern)
    THEN Match(Tail(pattern), Tail(s))
    ELSE NoMatch

\* f'{{{i}}}'
DigitOf(i) == << "1", "2", "3", "4", "5", "6", "7", "8", "9" >>[i]
Placeholder(i) == << "{", DigitOf(i), "}" >>

\* A slip of the call: replace(old, new, 1), only the first occurrence.
RECURSIVE ReplaceFirst(_, _, _)
ReplaceFirst(s, old, new) ==
    IF Len(s) < Len(old) THEN s
    ELSE IF SubSeq(s, 1, Len(old)) = old
    THEN new \o SubSeq(s, Len(old) + 1, Len(s))
    ELSE << Head(s) >> \o ReplaceFirst(Tail(s), old, new)

\* str.replace(old, new): every occurrence, left to right
RECURSIVE Replace(_, _, _)
Replace(s, old, new) ==
    IF Len(s) < Len(old) THEN s
    ELSE IF SubSeq(s, 1, Len(old)) = old
    THEN new \o Replace(SubSeq(s, Len(old) + 1, Len(s)), old, new)
    ELSE << Head(s) >> \o Replace(Tail(s), old, new)

\* for i, group in enumerate(match.groups(), 1): result = result.replace('{i}', group)
RECURSIVE Substitute(_, _, _)
Substitute(result, groups, i) ==
    IF i > Len(groups) THEN result
    ELSE Substitute(Replace(result, Placeholder(i), groups[i]), groups, i + 1)

\* the value map_code returns: a text, or None
Found(text) == [found |-> TRUE, text |-> text]
None == [found |-> FALSE, text |-> <<>>]

\* for key, template in self.mappings.items(): the first pattern that matches
RECURSIVE TryPatterns(_, _, _)
TryPatterns(mappings, code, i) ==
    IF i > Len(mappings) THEN None
    ELSE LET key == mappings[i].key IN
         IF Head(key) = "~" /\ Match(Tail(key), code).ok
         THEN Found(Substitute(mappings[i].template, Match(Tail(key), code).groups, 1))
         ELSE TryPatterns(mappings, code, i + 1)

\* if code in self.mappings: return self.mappings[code]
DirectLookup(mappings, code) ==
    LET hits == { i \in 1..Len(mappings) : mappings[i].key = code } IN
    IF hits = {} THEN None ELSE Found(mappings[CHOOSE i \in hits : TRUE].template)

\* A slip of the order: the patterns are tried before the direct lookup.
map_codePatternsFirst(mappings, code) ==
    LET c == Upper(code) IN
    IF TryPatterns(mappings, c, 1).found THEN TryPatterns(mappings, c, 1)
    ELSE DirectLookup(mappings, c)

\* A slip: the code is not normalized to upper case.
map_codeNoUpper(mappings, code) ==
    IF DirectLookup(mappings, code).found THEN DirectLookup(mappings, code)
    ELSE TryPatterns(mappings, code, 1)

\* A slip of the last line: the normalized code is returned where None is meant.
map_codeEcho(mappings, code) ==
    LET c == Upper(code) IN
    IF DirectLookup(mappings, c).found THEN DirectLookup(mappings, c)
    ELSE IF TryPatterns(mappings, c, 1).found THEN TryPatterns(mappings, c, 1)
    ELSE Found(c)

map_code(mappings, code) ==
    LET c == Upper(code) IN
    IF DirectLookup(mappings, c).found THEN DirectLookup(mappings, c)
    ELSE TryPatterns(mappings, c, 1)

\* the tables map_code is run on
Entry(key, template) == [key |-> key, template |-> template]
StaticA1     == Entry(<<"A", "1">>, <<"S">>)
StaticA1G2   == Entry(<<"A", "1", "G", "2">>, <<"S">>)
StaticG      == Entry(<<"G">>, <<"T">>)
HeaderG      == Entry(<<"!", "G">>, <<"G", "L">>)
PatternAd    == Entry(<<"~", "A", GroupDigits>>, <<"d", "=", "{", "1", "}">>)
PatternAw    == Entry(<<"~", "A", GroupWord>>, <<"w", "=", "{", "1", "}">>)
PatternAdGd  == Entry(<<"~", "A", GroupDigits, "G", GroupDigits>>,
                      <<"{", "2", "}", "/", "{", "1", "}", "{", "1", "}">>)
PatternwGd   == Entry(<<"~", GroupWord, "G", GroupDigits>>,
                      <<"{", "1", "}", "=", "{", "2", "}">>)

MappingTables ==
    { << StaticA1, PatternAd, HeaderG >>,
      << PatternAd, PatternAw, StaticG >>,
      << PatternAw, PatternAd >>,
      << PatternAdGd, HeaderG, StaticA1G2 >>,
      << PatternwGd >> }

\* the codes map_code is given
CodeChars == { "a", "A", "g", "G", "1", "2", "!" }
Codes == UNION { [1..n -> CodeChars] : n \in 1..MaxCodeLen }

ResolveInit ==
    /\ UIInit
    /\ FnIdle
    /\ bePc = "input"
    /\ beMappings \in MappingTables
    /\ beCode \in Codes
    /\ beMapped = None
    /\ beLine = <<>>
    /\ beAssembled = <<>>
    /\ beEntries = <<>>
    /\ beFormatted = <<>>
    /\ beShorthand = <<>>
    /\ beReport = <<>>
    /\ beNotes = {}

\* result = mapper.map_code(code)
MapCode ==
    /\ bePc = "input"
    /\ beMapped' = map_code(beMappings, beCode)
    /\ bePc' = "mapped"
    /\ UNCHANGED <<beMappings, beCode, beLine, beAssembled, beEntries, beFormatted,
                   beShorthand, beReport, beNotes, uiVars, fnVars>>

ResolveNext == MapCode

SpecResolve == ResolveInit /\ [][ResolveNext]_vars

----------------------------------------------------------------------------
(* The back end's treatment of one shorthand line in /api/generate: text    *)
(* between two @ is kept as it is, without the markers; the rest is split   *)
(* into tokens, each replaced by its expansion when map_code finds one and  *)
(* kept otherwise; the pieces are joined by single spaces.                  *)

\* sep.join(parts)
RECURSIVE JoinWith(_, _)
JoinWith(parts, sep) ==
    IF parts = <<>> THEN <<>>
    ELSE IF Len(parts) = 1 THEN parts[1]
    ELSE parts[1] \o sep \o JoinWith(Tail(parts), sep)

\* the tokens of a text: the substrings between white space
RECURSIVE Words(_)
Words(text) ==
    IF text = <<>> THEN <<>>
    ELSE IF IsSpace(Head(text)) THEN Words(Tail(text))
    ELSE LET n == CHOOSE k \in 1..Len(text) :
                     /\ \A i \in 1..k : ~IsSpace(text[i])
                     /\ (k = Len(text) \/ IsSpace(text[k + 1]))
         IN << SubSeq(text, 1, n) >> \o Words(SubSeq(text, n + 1, Len(text)))

\* the tokens of a text, each expanded or kept
ExpandWords(mappings, text) ==
    LET ws == Words(text) IN
    [i \in 1..Len(ws) |->
        IF map_code(mappings, ws[i]).found
        THEN map_code(mappings, ws[i]).text ELSE ws[i]]

Markers(text) == { i \in 1..Len(text) : text[i] = "@" }

\* A slip: the text of a protected span is expanded like the rest.
RECURSIVE PiecesExpandSpan(_, _)
PiecesExpandSpan(mappings, text) ==
    IF Markers(text) = {} THEN ExpandWords(mappings, text)
    ELSE LET p    == CHOOSE i \in Markers(text) : \A j \in Markers(text) : i <= j
             rest == SubSeq(text, p + 1, Len(text))
             q    == CHOOSE i \in Markers(rest) : \A j \in Markers(rest) : i <= j
         IN ExpandWords(mappings, SubSeq(text, 1, p - 1))
            \o ExpandWords(mappings, SubSeq(rest, 1, q - 1))
            \o PiecesExpandSpan(mappings, SubSeq(rest, q + 1, Len(rest)))

\* the pieces of a line whose protected spans are all closed
RECURSIVE Pieces(_, _)
Pieces(mappings, text) ==
    IF Markers(text) = {} THEN ExpandWords(mappings, text)
    ELSE LET p    == CHOOSE i \in Markers(text) : \A j \in Markers(text) : i <= j
             rest == SubSeq(text, p + 1, Len(text))
             q    == CHOOSE i \in Markers(rest) : \A j \in Markers(rest) : i <= j
         IN ExpandWords(mappings, SubSeq(text, 1, p - 1))
            \o << SubSeq(rest, 1, q - 1) >>
            \o Pieces(mappings, SubSeq(rest, q + 1, Len(rest)))

\* a line with an unterminated span is emitted literally
AssembleLine(mappings, text) ==
    IF Cardinality(Markers(text)) % 2 = 1 THEN text
    ELSE JoinWith(Pieces(mappings, text), <<" ">>)

AssembleTables == { << StaticA1, PatternAd, HeaderG >>, << PatternAd >> }
LineChars == { "a", "1", "@", " " }
ShorthandLines == UNION { [1..n -> LineChars] : n \in 0..MaxLineLen }

AssembleInit ==
    /\ UIInit
    /\ FnIdle
    /\ bePc = "input"
    /\ beMappings \in AssembleTables
    /\ beCode = <<>>
    /\ beMapped = None
    /\ beLine \in ShorthandLines
    /\ beAssembled = <<>>
    /\ beEntries = <<>>
    /\ beFormatted = <<>>
    /\ beShorthand = <<>>
    /\ beReport = <<>>
    /\ beNotes = {}

Assemble ==
    /\ bePc = "input"
    /\ beAssembled' = AssembleLine(beMappings, beLine)
    /\ bePc' = "assembled"
    /\ UNCHANGED <<beMappings, beCode, beMapped, beLine, beEntries, beFormatted,
                   beShorthand, beReport, beNotes, uiVars, fnVars>>

AssembleNext == Assemble

SpecAssemble == AssembleInit /\ [][AssembleNext]_vars

----------------------------------------------------------------------------
(* The back end's treatment of the whole shorthand in /api/generate: the    *)
(* lines are assembled one by one, in order; a line whose span is opened    *)
(* but not closed is reported in validation_errors, one note per line.      *)

\* A slip: assembly gives up at the first line with an unterminated span.
AssembleTextAbort(mappings, text) ==
    LET ls  == Split(text)
        bad == { i \in 1..Len(ls) : Cardinality(Markers(ls[i])) % 2 = 1 }
    IN IF bad = {}
       THEN [report |-> Join([i \in 1..Len(ls) |-> AssembleLine(mappings, ls[i])]),
             notes  |-> {}]
       ELSE LET b == CHOOSE i \in bad : \A j \in bad : i <= j
            IN [report |-> Join([i \in 1..(b - 1) |-> AssembleLine(mappings, ls[i])]),
                notes  |-> { b }]

AssembleText(mappings, text) ==
    LET ls == Split(text)
    IN [report |-> Join([i \in 1..Len(ls) |-> AssembleLine(mappings, ls[i])]),
        notes  |-> { i \in 1..Len(ls) : Cardinality(Markers(ls[i])) % 2 = 1 }]

MaxTextLines == 3

\* the lines of the shorthands: blank, a code, a closed span, an opened
\* span, a token before a lone marker, a closed span followed by an opened one
TextLines ==
    { <<>>,
      <<"a", "1">>,
      <<"@", "a", "1", "@">>,
      <<"@", "a", "1">>,
      <<"a", "1", " ", "@">>,
      <<"@", "a", "@", " ", "@", "a", "1">> }
ShorthandTextSet ==
    { Join(ls) : ls \in UNION { [1..k -> TextLines] : k \in 1..MaxTextLines } }

AssembleTextInit ==
    /\ UIInit
    /\ FnIdle
    /\ bePc = "input"
    /\ beMappings \in AssembleTables
    /\ beCode = <<>>
    /\ beMapped = None
    /\ beLine = <<>>
    /\ beAssembled = <<>>
    /\ beEntries = <<>>
    /\ beFormatted = <<>>
    /\ beShorthand \in ShorthandTextSet
    /\ beReport = <<>>
    /\ beNotes = {}

AssembleShorthand ==
    /\ bePc = "input"
    /\ beReport' = AssembleText(beMappings, beShorthand).report
    /\ beNotes' = AssembleText(beMappings, beShorthand).notes
    /\ bePc' = "assembledText"
    /\ UNCHANGED <<beMappings, beCode, beMapped, beLine, beAssembled, beEntries,
                   beFormatted, beShorthand, uiVars, fnVars>>

AssembleTextNext == AssembleShorthand

SpecAssembleText == AssembleTextInit /\ [][AssembleTextNext]_vars

----------------------------------------------------------------------------

(* The back end's section formatting: ReportFormatter.format_entries        *)

\* formatted.append(f"\n{entry['text']}\n") for a header, entry['text'] otherwise
FormatEntry(entry) ==
    IF entry.type = "header" THEN <<NL>> \o entry.text \o <<NL>> ELSE entry.text

\* return '\n'.join(formatted)
format_entries(entries) ==
    JoinWith([i \in 1..Len(entries) |-> FormatEntry(entries[i])], <<NL>>)

HeaderTexts == { <<"G">>, <<"T">> }
ContentTexts == { <<"c">>, <<"d">> }
EntrySet ==
    { [type |-> "header", text |-> t] : t \in HeaderTexts }
    \cup { [type |-> "content", text |-> t] : t \in ContentTexts }
EntryLists == UNION { [1..n -> EntrySet] : n \in 0..MaxEntries }

FormatInit ==
    /\ UIInit
    /\ FnIdle
    /\ bePc = "input"
    /\ beMappings = <<>>
    /\ beCode = <<>>
    /\ beMapped = <<>>
    /\ beLine = <<>>
    /\ beAssembled = <<>>
    /\ beEntries \in EntryLists
    /\ beFormatted = <<>>
    /\ beShorthand = <<>>
    /\ beReport = <<>>
    /\ beNotes = {}

Format ==
    /\ bePc = "input"
    /\ beFormatted' = format_entries(beEntries)
    /\ bePc' = "formatted"
    /\ UNCHANGED <<beMappings, beCode, beMapped, beLine, beAssembled, beEntries,
                   beShorthand, beReport, beNotes, uiVars, fnVars>>

FormatNext == Format

SpecFormat == FormatInit /\ [][FormatNext]_vars

----------------------------------------------------------------------------
(* Properties *)

Lines(text) == Len(Split(text))

\* C1: once an edit of line n to text t is captured, every successful
\* regeneration that fires later and whose fresh baseline has at least n lines
\* shows t on line n, as long as the user did not re-edit the line and Clear
\* was not pressed.
C1_EditsSurviveRegeneration ==
    [][\A i \in 1..MaxInFlight :
          ResponseSuccess(i) =>
             \A n \in DOMAIN captured \cap DOMAIN inflight[i].seen :
                (/\ inflight[i].seen[n] = captured[n]
                 /\ n <= Lines(ReportText(inflight[i].shorthand_text)))
                   => /\ n <= Lines(generatedReport')
                      /\ Split(generatedReport')[n] = captured[n]]_vars

\* C2: applying what detectEdits(baseline, edited, m) returns to the same
\* baseline gives back edited, whenever edited has at least as many lines.
C2_RoundTripWithoutDeletions ==
    (fnPc = "applied" /\ fnBase = fnOriginal /\ Lines(fnEdited) >= Lines(fnOriginal))
       => fnResult = fnEdited

C2_Witness ==
    /\ fnPc = "applied"
    /\ fnBase = fnOriginal
    /\ Lines(fnEdited) >= Lines(fnOriginal) + 2
    /\ DOMAIN fnOverlay # {}
    /\ fnResult = fnEdited

InScenario ==
    fnOriginal = ScenarioBaseline /\ fnEdited = ScenarioEdited

\* C3 as stated: the scenario's overlay and addition applied to the baseline
\* A,B,C,E give A,X,C,E,D (the addition after the newly appended line).
C3_AdditionAfterAppendedLine ==
    (fnPc = "applied" /\ InScenario /\ fnBase = ScenarioNewBaseline)
       => fnResult = Join(<< <<"A">>, <<"X">>, <<"C">>, <<"E">>, <<"D">> >>)

\* C3 as amended: they give A,X,C,D,E: the addition stays directly after
\* baseline line 3, before the line the regeneration appended.
C3_AdditionStaysAtAnchor ==
    (fnPc = "applied" /\ InScenario /\ fnBase = ScenarioNewBaseline)
       => fnResult = Join(<< <<"A">>, <<"X">>, <<"C">>, <<"D">>, <<"E">> >>)

C3_Witness ==
    /\ fnPc = "applied"
    /\ InScenario
    /\ fnBase = ScenarioNewBaseline
    /\ Lines(fnResult) = 5

\* C4: detectEdits on A,B,C and A,X,C,D returns exactly the overlay
\* {2: B -> X} and exactly the additions [{afterLine 3, text D}].
C4_ScenarioDetection ==
    (fnPc # "input" /\ InScenario)
       => /\ DOMAIN fnOverlay = {2}
          /\ fnOverlay[2].originalText = <<"B">>
          /\ fnOverlay[2].editedText = <<"X">>
          /\ fnOverlay[2].lineNumber = 2
          /\ fnAdditions = << [afterLine |-> 3, text |-> <<"D">>] >>

C4_Witness ==
    /\ fnPc = "detected"
    /\ InScenario
    /\ fnOverlay # EmptyOverlay
    /\ fnMappings # <<>>

\* C5: a regeneration that fires in EDIT mode applies to the new baseline
\* exactly detectEdits(currentText, editableText, lineMappings) of the text
\* in the textarea at that moment, whatever that text is.
C5_CaptureBeforeRegenerate ==
    [][(GenerateReport /\ isEditMode /\ Len(inflight') = Len(inflight) + 1) =>
          LET d == detectEdits(generatedReport, editableReport, lineMappings)
              r == inflight'[Len(inflight')]
          IN /\ r.newOverlay = d.editOverlay
             /\ r.newAdditions = d.manualAdditions]_vars

\* C6: every line the user changed in the textarea before the baseline is
\* swapped is in the text the regeneration leaves (where the fresh baseline
\* has that line).
C6_NoEditLostToRace ==
    [][\A i \in 1..MaxInFlight :
          (ResponseSuccess(i) /\ isEditMode /\ Truthy(generatedReport)) =>
             LET gl == Split(generatedReport)
                 el == Split(editableReport)
             IN \A n \in 1..Min(Len(gl), Len(el)) :
                   (gl[n] # el[n] /\ n <= Lines(ReportText(inflight[i].shorthand_text)))
                      => /\ Split(editableReport')[n] = el[n]
                         /\ Split(generatedReport')[n] = el[n]]_vars

\* C7: at most one generation request is outstanding at any time.
C7_AtMostOneRegeneration == Len(inflight) <= 1

\* C8: right after the toggle from EDIT to VIEW, overlay and additions are
\* what detectEdits(currentText, editableText, lineMappings) returned at the
\* toggle, and nothing else.
C8_ToggleToViewReplaces ==
    [][lastEvent' = "toggleToView" =>
          LET d == detectEdits(generatedReport, editableReport, lineMappings)
          IN /\ isEditMode /\ ~isEditMode'
             /\ editOverlay' = d.editOverlay
             /\ manualAdditions' = d.manualAdditions]_vars

C8_Witness ==
    /\ lastEvent = "toggleToView"
    /\ ~isEditMode
    /\ DOMAIN editOverlay # {}
    /\ manualAdditions # <<>>

\* C9: right after the toggle from EDIT to VIEW, currentText is the text the
\* user left in the textarea.
C9_ToggleToViewShowsEdits ==
    lastEvent = "toggleToView" => generatedReport = editableReport

\* C10: right after the toggle from VIEW to EDIT, editableText is currentText.
C10_ToggleToEditSnapshots ==
    lastEvent = "toggleToEdit" => editableReport = generatedReport

\* C11: after every successful regeneration, currentText is
\* applyOverlay(fresh baseline, captured overlay, captured additions) of the
\* request that was answered, and editableText is that same text.
C11_RegenerationAppliesOverlay ==
    [][lastEvent' = "responseSuccess" =>
          \E i \in 1..Len(inflight) :
             /\ inflight' = RemoveAt(inflight, i)
             /\ generatedReport' =
                   applyEditOverlay(ReportText(inflight[i].shorthand_text),
                                    inflight[i].newOverlay, inflight[i].newAdditions)
             /\ editableReport' = generatedReport']_vars

C11_Witness ==
    /\ lastEvent = "responseSuccess"
    /\ manualAdditions # <<>>
    /\ Lines(generatedReport) >= 3
    /\ editableReport = generatedReport

\* the additions anchored at line a, in insertion order
RECURSIVE TextsAt(_, _)
TextsAt(additions, a) ==
    IF additions = <<>> THEN <<>>
    ELSE (IF Head(additions).afterLine = a THEN << Head(additions).text >> ELSE <<>>)
         \o TextsAt(Tail(additions), a)

\* the texts of the additions anchored at lines from..to, anchor by anchor
RECURSIVE TextsFrom(_, _, _)
TextsFrom(additions, from, to) ==
    IF from > to THEN <<>>
    ELSE TextsAt(additions, from) \o TextsFrom(additions, from + 1, to)

\* every line followed by the additions anchored at it, from line i on
RECURSIVE Layered(_, _, _)
Layered(lines, additions, i) ==
    IF i > Len(lines) THEN <<>>
    ELSE (IF i = 0 THEN <<>> ELSE << lines[i] >>)
         \o TextsAt(additions, i) \o Layered(lines, additions, i + 1)

AddedBefore(additions, i) ==
    Cardinality({ k \in 1..Len(additions) : additions[k].afterLine < i })

LargestAnchor(additions) ==
    IF additions = <<>> THEN 0
    ELSE CHOOSE a \in { additions[k].afterLine : k \in 1..Len(additions) } :
            \A k \in 1..Len(additions) : additions[k].afterLine <= a

StaleAdditions(additions, n) ==
    { k \in 1..Len(additions) : additions[k].afterLine > n }

\* C12: the output line that comes from baseline line i is the editedText of
\* the overlay entry with key i when there is one (also an empty editedText,
\* also when the baseline line is not the entry's originalText), and the
\* baseline line otherwise.
C12_SubstitutionByLineNumber ==
    fnPc = "applied" =>
       LET base == Split(fnBase)
           out  == Split(fnResult)
       IN \A i \in 1..Len(base) :
             LET pos == i + AddedBefore(fnAdditions, i) IN
             /\ pos <= Len(out)
             /\ out[pos] = IF i \in DOMAIN fnOverlay
                           THEN fnOverlay[i].editedText ELSE base[i]

C12_Witness ==
    /\ fnPc = "applied"
    /\ \E i \in DOMAIN fnOverlay :
          /\ i <= Lines(fnBase)
          /\ fnOverlay[i].editedText = <<>>
          /\ fnOverlay[i].originalText # Split(fnBase)[i]
          /\ Split(fnResult)[i + AddedBefore(fnAdditions, i)] = <<>>
    /\ \E i \in 1..Lines(fnBase) : i \notin DOMAIN fnOverlay

\* C13: with every addition anchored inside the baseline, the additions are
\* layered in afterLine order, ties in insertion order: the additions of one
\* anchor stand together, in insertion order, directly after that baseline line.
C13_AdditionsLayeredInOrder ==
    (fnPc = "applied" /\ StaleAdditions(fnAdditions, Lines(fnBase)) = {}) =>
       Split(fnResult) = Layered(ApplyEdits(Split(fnBase), fnOverlay), fnAdditions, 0)

C13_Witness ==
    /\ fnPc = "applied"
    /\ Len(fnAdditions) = 2
    /\ fnAdditions[1].afterLine = fnAdditions[2].afterLine
    /\ fnAdditions[1].text # fnAdditions[2].text
    /\ fnAdditions[1].afterLine < Lines(fnBase)
    /\ fnAdditions[1].afterLine >= 1
    /\ Lines(fnResult) = Lines(fnBase) + 2

\* C14 as stated: an addition whose afterLine is greater than the number of
\* baseline lines is ignored: the output is the output without that addition.
C14_StaleAdditionIgnored ==
    fnPc = "applied" =>
       \A k \in StaleAdditions(fnAdditions, Lines(fnBase)) :
          fnResult = applyEditOverlay(fnBase, fnOverlay, RemoveAt(fnAdditions, k))

\* C14 as amended: such additions are appended: the output is the output
\* without the stale additions, followed by their texts as last lines, in
\* afterLine order with ties in insertion order.
C14_StaleAdditionAppended ==
    (fnPc = "applied" /\ StaleAdditions(fnAdditions, Lines(fnBase)) # {}) =>
       LET n     == Lines(fnBase)
           fresh == SelectSeq(fnAdditions, LAMBDA a : a.afterLine <= n)
       IN Split(fnResult) =
             Layered(ApplyEdits(Split(fnBase), fnOverlay), fresh, 0)
             \o TextsFrom(fnAdditions, n + 1, LargestAnchor(fnAdditions))

C14_Witness ==
    /\ fnPc = "applied"
    /\ Len(fnAdditions) = 2
    /\ fnAdditions[1].afterLine > Lines(fnBase)
    /\ fnAdditions[2].afterLine <= Lines(fnBase)
    /\ Split(fnResult)[Lines(fnResult)] = fnAdditions[1].text

\* C15: an overlay entry whose line number exceeds the number of baseline
\* lines is ignored: the output is the output without that entry.
C15_StaleOverlayEntryIgnored ==
    fnPc = "applied" =>
       \A n \in DOMAIN fnOverlay :
          n > Lines(fnBase) =>
             fnResult = applyEditOverlay(fnBase,
                           [m \in DOMAIN fnOverlay \ {n} |-> fnOverlay[m]], fnAdditions)

C15_Witness ==
    /\ fnPc = "applied"
    /\ \E n \in DOMAIN fnOverlay : n > Lines(fnBase) /\ fnOverlay[n].editedText = <<"X">>
    /\ \E n \in DOMAIN fnOverlay : n <= Lines(fnBase)
    /\ Lines(fnResult) = Lines(fnBase) + Len(fnAdditions)

SourceCodesOf(mappings, n) ==
    { mappings[k].source_code : k \in { j \in 1..Len(mappings) : mappings[j].line_number = n } }

\* C16: detectEdits records an entry for line n exactly when n is a line of
\* both texts and the two lines differ; the entry holds the original line,
\* the edited line, and the source_code of a lineMappings element of line n,
\* or the empty string when there is none.
C16_OverlayEntries ==
    fnPc # "input" =>
       LET ol == Split(fnOriginal)
           el == Split(fnEdited)
       IN /\ DOMAIN fnOverlay =
                { n \in 1..Min(Len(ol), Len(el)) : ol[n] # el[n] }
          /\ \A n \in DOMAIN fnOverlay :
                /\ fnOverlay[n].lineNumber = n
                /\ fnOverlay[n].originalText = ol[n]
                /\ fnOverlay[n].editedText = el[n]
                /\ IF SourceCodesOf(fnMappings, n) = {}
                   THEN fnOverlay[n].sourceCode = ""
                   ELSE fnOverlay[n].sourceCode \in SourceCodesOf(fnMappings, n)

C16_Witness ==
    /\ fnPc = "detected"
    /\ Lines(fnOriginal) = 3
    /\ Lines(fnEdited) = 2
    /\ DOMAIN fnOverlay = {1}
    /\ fnOverlay[1].sourceCode = "a"
    /\ Len(fnMappings) = 2

\* C17: with more edited lines than original lines there is one addition
\* per edited line past the original, in order, each anchored at the number
\* of original lines; otherwise there is none.
C17_TrailingAdditions ==
    fnPc # "input" =>
       LET ol == Split(fnOriginal)
           el == Split(fnEdited)
       IN IF Len(el) > Len(ol)
          THEN /\ Len(fnAdditions) = Len(el) - Len(ol)
               /\ \A k \in 1..Len(fnAdditions) :
                     /\ fnAdditions[k].afterLine = Len(ol)
                     /\ fnAdditions[k].text = el[Len(ol) + k]
          ELSE fnAdditions = <<>>

C17_Witness ==
    /\ fnPc = "detected"
    /\ Lines(fnOriginal) = 1
    /\ Len(fnAdditions) = 2
    /\ fnAdditions[1].text # fnAdditions[2].text

\* C18: with fewer edited lines than original lines, detectEdits returns no
\* entry past the last edited line and no addition, and applying the result
\* to a baseline that has those lines shows the baseline's text on them.
C18_NoTombstone ==
    (fnPc # "input" /\ Lines(fnEdited) < Lines(fnOriginal)) =>
       /\ \A n \in DOMAIN fnOverlay : n <= Lines(fnEdited)
       /\ fnAdditions = <<>>
       /\ fnPc = "applied" =>
             \A n \in (Lines(fnEdited) + 1)..Lines(fnBase) :
                /\ n <= Lines(fnResult)
                /\ Split(fnResult)[n] = Split(fnBase)[n]

C18_Witness ==
    /\ fnPc = "applied"
    /\ Lines(fnEdited) = 1
    /\ Lines(fnOriginal) = 3
    /\ fnBase = fnOriginal
    /\ DOMAIN fnOverlay = {1}
    /\ Split(fnResult)[3] = Split(fnOriginal)[3]

\* C19: applyOverlay with an empty overlay and no additions returns the text
\* it is given, and a regeneration whose captured overlay and additions are
\* empty sets currentText to the baseline the server returned.
C19_OverlayIdentity ==
    [][/\ applyEditOverlay(generatedReport', EmptyOverlay, <<>>) = generatedReport'
       /\ applyEditOverlay(editableReport', EmptyOverlay, <<>>) = editableReport'
       /\ lastEvent' = "responseSuccess" =>
             \E i \in 1..Len(inflight) :
                /\ inflight' = RemoveAt(inflight, i)
                /\ (inflight[i].newOverlay = EmptyOverlay /\ inflight[i].newAdditions = <<>>)
                      => /\ generatedReport' = ReportText(inflight[i].shorthand_text)
                         /\ generatedReport' =
                               applyEditOverlay(ReportText(inflight[i].shorthand_text),
                                                EmptyOverlay, <<>>)]_vars

C19_Witness ==
    /\ lastEvent = "responseSuccess"
    /\ editOverlay = EmptyOverlay
    /\ manualAdditions = <<>>
    /\ Lines(generatedReport) = 2
    /\ generatedReport = ReportText(shorthandText)

\* C20: detectEdits of a text against itself returns an empty overlay and no
\* additions, whatever the lineMappings.
C20_NoOpDiff ==
    (fnPc # "input" /\ fnOriginal = fnEdited) =>
       (fnOverlay = EmptyOverlay /\ fnAdditions = <<>>)

C20_Witness ==
    /\ fnPc = "detected"
    /\ fnOriginal = fnEdited
    /\ Lines(fnOriginal) = 3
    /\ Len(fnMappings) = 2
    /\ fnOverlay = EmptyOverlay

\* C21: a regeneration is requested for the shorthand in the box, and the
\* text it puts on display is built on the text the server returned for that
\* shorthand, never on a text an earlier overlay application produced: it has
\* the server text's lines plus one line per addition, and every server line
\* without an overlay entry stands in it unchanged.
C21_BaselineIsFreshText ==
    [][/\ (lastEvent' = "generateReport" /\ Len(inflight') > Len(inflight))
             => inflight'[Len(inflight')].shorthand_text = shorthandText
       /\ lastEvent' = "responseSuccess" =>
             \E i \in 1..Len(inflight) :
                /\ inflight' = RemoveAt(inflight, i)
                /\ LET req  == inflight[i]
                       base == Split(ReportText(req.shorthand_text))
                       out  == Split(generatedReport')
                   IN /\ Len(out) = Len(base) + Len(req.newAdditions)
                      /\ \A n \in 1..Len(base) :
                            n \notin DOMAIN req.newOverlay =>
                               out[n + AddedBefore(req.newAdditions, n)] = base[n]]_vars

C21_Witness ==
    /\ lastEvent = "responseSuccess"
    /\ ~isEditMode
    /\ manualAdditions # <<>>
    /\ editOverlay # EmptyOverlay
    /\ Lines(generatedReport) = Lines(ReportText(shorthandText)) + Len(manualAdditions)
    /\ \E n \in 1..Lines(ReportText(shorthandText)) :
          /\ n \notin DOMAIN editOverlay
          /\ Split(generatedReport)[n] = Split(ReportText(shorthandText))[n]

WellFormedOverlay(overlay) ==
    \A k \in DOMAIN overlay :
       /\ k >= 1
       /\ overlay[k].lineNumber = k
       /\ overlay[k].editedText # overlay[k].originalText

\* C22: in every reachable state every entry of the overlay, and of the
\* overlay a pending regeneration carries, is stored under its own line
\* number, which is at least 1 (so no two entries have one line number), and
\* its edited text differs from its original text.
C22_OverlayWellFormed ==
    /\ WellFormedOverlay(editOverlay)
    /\ \A i \in 1..Len(inflight) : WellFormedOverlay(inflight[i].newOverlay)

C22_Witness ==
    /\ Cardinality(DOMAIN editOverlay) = 2
    /\ lastEvent = "toggleToView"
    /\ \E k \in DOMAIN editOverlay : editOverlay[k].editedText = <<>>
    /\ \E k \in DOMAIN editOverlay : editOverlay[k].editedText = <<"X">>

\* C23: in every reachable state all manual additions have the same
\* afterLine, and whenever the additions are set they are the trailing lines
\* of the edit buffer they were detected from, in the buffer's order.
C23_AdditionsOneAnchorInOrder ==
    [][/\ \A i, j \in 1..Len(manualAdditions') :
             manualAdditions'[i].afterLine = manualAdditions'[j].afterLine
       /\ (manualAdditions' # manualAdditions /\ manualAdditions' # <<>>) =>
             LET buf == IF lastEvent' = "toggleToView"
                        THEN editableReport ELSE timer[1].editableReport
                 ls  == Split(buf)
                 a   == manualAdditions'[1].afterLine
             IN /\ Len(ls) = a + Len(manualAdditions')
                /\ \A k \in 1..Len(manualAdditions') :
                      manualAdditions'[k].text = ls[a + k]]_vars

C23_Witness ==
    /\ lastEvent = "toggleToView"
    /\ Len(manualAdditions) = 2
    /\ manualAdditions[1].text # manualAdditions[2].text
    /\ manualAdditions[1].afterLine = 1
    /\ Split(editableReport)[2] = manualAdditions[1].text
    /\ Split(editableReport)[3] = manualAdditions[2].text

\* the claim's lower(T)
LowerChar(c) ==
    CASE c = "A" -> "a" [] c = "G" -> "g" [] c = "M" -> "m" [] c = "E" -> "e"
      [] OTHER -> c
Lower(s) == [i \in 1..Len(s) |-> LowerChar(s[i])]

\* the entries of each kind that apply to a token, by their place in the table
StaticFor(table, token) ==
    { i \in 1..Len(table) :
         Head(table[i].key) \notin { "~", "!" } /\ table[i].key = Upper(token) }
PatternsFor(table, token) ==
    { i \in 1..Len(table) :
         Head(table[i].key) = "~" /\ Match(Tail(table[i].key), Upper(token)).ok }
HeaderFor(table, token) ==
    { i \in 1..Len(table) :
         Head(table[i].key) = "!" /\ table[i].key = Upper(token) }
First(S) == CHOOSE i \in S : \A j \in S : i <= j

C26_CaseInsensitive ==
    (bePc = "mapped" /\ StaticFor(beMappings, beCode) # {}) =>
       /\ beMapped = Found(beMappings[First(StaticFor(beMappings, beCode))].template)
       /\ map_code(beMappings, Upper(beCode)) = beMapped
       /\ map_code(beMappings, Lower(beCode)) = beMapped

C26_Witness ==
    /\ bePc = "mapped"
    /\ StaticFor(beMappings, beCode) # {}
    /\ beCode # Upper(beCode)
    /\ beCode # Lower(beCode)
    /\ beMapped.found

\* does text hold the string sub?
RECURSIVE Contains(_, _)
Contains(text, sub) ==
    /\ Len(text) >= Len(sub)
    /\ \/ SubSeq(text, 1, Len(sub)) = sub
       \/ Contains(Tail(text), sub)

\* the template with every placeholder {j}, j <= Len(groups), filled in one pass
RECURSIVE Filled(_, _)
Filled(template, groups) ==
    IF template = <<>> THEN <<>>
    ELSE LET js == { j \in 1..Len(groups) :
                        /\ Len(template) >= 3
                        /\ SubSeq(template, 1, 3) = Placeholder(j) }
         IN IF js # {}
            THEN groups[First(js)] \o Filled(SubSeq(template, 4, Len(template)), groups)
            ELSE << Head(template) >> \o Filled(Tail(template), groups)

\* C27: when a token resolves by a Pattern entry whose template has the
\* placeholders {1}..{k} and the match has k groups, the result holds none
\* of these placeholders: it is the template with each placeholder replaced
\* by its group.
C27_PlaceholdersFilled ==
    (/\ bePc = "mapped"
     /\ StaticFor(beMappings, beCode) = {}
     /\ PatternsFor(beMappings, beCode) # {}) =>
       LET e == beMappings[First(PatternsFor(beMappings, beCode))]
           g == Match(Tail(e.key), Upper(beCode)).groups
       IN { j \in 1..9 : Contains(e.template, Placeholder(j)) } = 1..Len(g) =>
             /\ beMapped.found
             /\ \A j \in 1..Len(g) : ~Contains(beMapped.text, Placeholder(j))
             /\ beMapped.text = Filled(e.template, g)

C27_Witness ==
    /\ bePc = "mapped"
    /\ beMappings[1] = PatternAdGd
    /\ beCode = <<"a", "1", "G", "2">> \/ beCode = <<"A", "2", "g", "1">>
    /\ beMapped.found
    /\ Len(beMapped.text) = 4
    /\ ~Contains(beMapped.text, <<"{">>)

UnknownToken(table, token) ==
    /\ StaticFor(table, token) = {}
    /\ PatternsFor(table, token) = {}
    /\ HeaderFor(table, token) = {}

\* C28: in a line without protected spans the output has one piece per
\* token, in the tokens' order, and the piece of a token that matches no
\* Static, Pattern or Header entry is the token itself, character for
\* character and in its own case.
C28_UnknownTokenPassthrough ==
    (bePc = "assembled" /\ Markers(beLine) = {}) =>
       LET toks == Words(beLine)
           out  == Words(beAssembled)
       IN /\ Len(out) = Len(toks)
          /\ \A i \in 1..Len(toks) :
                UnknownToken(beMappings, toks[i]) => out[i] = toks[i]

C28_Witness ==
    /\ bePc = "assembled"
    /\ Markers(beLine) = {}
    /\ Len(Words(beLine)) = 3
    /\ UnknownToken(beMappings, Words(beLine)[2])
    /\ Words(beLine)[2] # Upper(Words(beLine)[2])
    /\ ~UnknownToken(beMappings, Words(beLine)[1])
    /\ Words(beAssembled)[2] = Words(beLine)[2]

\* C29: the text between the two markers of a line's protected span is
\* emitted as it is, without the markers and unexpanded, between the pieces
\* of the tokens before and after it; a line that is one span yields exactly
\* the span's text, also when that text has a Static entry.
C29_ProtectedSpanLiteral ==
    (bePc = "assembled" /\ Cardinality(Markers(beLine)) = 2) =>
       LET p   == CHOOSE i \in Markers(beLine) : \A j \in Markers(beLine) : i <= j
           q   == CHOOSE i \in Markers(beLine) : \A j \in Markers(beLine) : j <= i
           lit == SubSeq(beLine, p + 1, q - 1)
       IN /\ beAssembled =
                JoinWith(ExpandWords(beMappings, SubSeq(beLine, 1, p - 1))
                         \o << lit >>
                         \o ExpandWords(beMappings, SubSeq(beLine, q + 1, Len(beLine))),
                         <<" ">>)
          /\ (p = 1 /\ q = Len(beLine)) => beAssembled = lit

C29_Witness ==
    /\ bePc = "assembled"
    /\ beLine = <<"@", "a", "1", "@">> \/ beLine = <<"1", " ", "@", "a", "1", "@">>
    /\ StaticFor(beMappings, <<"a", "1">>) # {}
    /\ beAssembled = <<"a", "1">> \/ beAssembled = <<"1", " ", "a", "1">>

IsHeaderLine(l) == l \in HeaderTexts

\* C30: in the formatted output every header line has exactly one blank
\* line before it: the line before it is blank and the line before that, if
\* there is one, is not.
C30_OneBlankLineBeforeHeader ==
    bePc = "formatted" =>
       LET ls == Split(beFormatted) IN
       \A n \in 1..Len(ls) :
          IsHeaderLine(ls[n]) =>
             /\ n >= 2
             /\ ls[n - 1] = <<>>
             /\ (n >= 3 => ls[n - 2] # <<>>)

\* C32: the latest shorthand wins.  With no regeneration pending, the
\* response to the request for the shorthand in the box on display, and one
\* request for an older shorthand still outstanding, the arrival of the older
\* request's response does not overwrite what the newer one produced.
C32_LatestShorthandWins ==
    [][(/\ timer = <<>>
        /\ Truthy(Trim(shorthandText))
        /\ lastEvent = "responseSuccess"
        /\ lineMappings = ReportLineMappings(shorthandText)
        /\ Len(inflight) = 1
        /\ inflight[1].shorthand_text # shorthandText
        /\ lastEvent' = "responseSuccess")
       => /\ generatedReport' = generatedReport
          /\ lineMappings' = lineMappings]_vars

\* C33: while the shorthand is blank the report is empty, also when the
\* response to a request made before the shorthand was blanked arrives.
C33_BlankShorthandEmptyReport ==
    ~Truthy(Trim(shorthandText)) => generatedReport = EmptyText

\* C34: a regeneration that fires in VIEW mode leaves overlay, additions and
\* mode as they are, and the request carries the stored overlay and
\* additions, which are applied to the new baseline; the arrival of a
\* response, success or failure, leaves the three unchanged as well.
C34_ViewModeCarryOver ==
    [][/\ (~isEditMode /\ lastEvent' = "generateReport" /\ Len(inflight') > Len(inflight))
             => /\ editOverlay' = editOverlay
                /\ manualAdditions' = manualAdditions
                /\ isEditMode' = isEditMode
                /\ inflight'[Len(inflight')].newOverlay = editOverlay
                /\ inflight'[Len(inflight')].newAdditions = manualAdditions
       /\ lastEvent' \in { "responseSuccess", "responseFailure" }
             => /\ editOverlay' = editOverlay
                /\ manualAdditions' = manualAdditions
                /\ isEditMode' = isEditMode]_vars

\* C35: a generation request that fails changes no text: neither its issue
\* nor its failure changes currentText, editableText, lineMappings or the
\* mode, and the failure sets isGenerating to false.
C35_FailureChangesNoText ==
    [][/\ (lastEvent' = "generateReport" /\ Len(inflight') > Len(inflight))
             => /\ generatedReport' = generatedReport
                /\ editableReport' = editableReport
                /\ lineMappings' = lineMappings
                /\ isEditMode' = isEditMode
       /\ lastEvent' = "responseFailure"
             => /\ generatedReport' = generatedReport
                /\ editableReport' = editableReport
                /\ lineMappings' = lineMappings
                /\ isEditMode' = isEditMode
                /\ isGenerating' = FALSE]_vars

C35_Witness ==
    /\ lastEvent = "responseFailure"
    /\ ~isGenerating
    /\ isEditMode
    /\ Truthy(generatedReport)
    /\ editableReport # generatedReport
    /\ lineMappings # <<>>

\* C36: right after handleClear the shorthand, currentText and editableText
\* are empty, overlay, additions and lineMappings are empty, and the mode is
\* VIEW.
C36_ClearResetsState ==
    lastEvent = "handleClear" =>
       /\ shorthandText = EmptyText
       /\ generatedReport = EmptyText
       /\ editableReport = EmptyText
       /\ editOverlay = EmptyOverlay
       /\ manualAdditions = <<>>
       /\ lineMappings = <<>>
       /\ ~isEditMode

C36_Witness ==
    /\ lastEvent = "handleClear"
    /\ editOverlay = EmptyOverlay
    /\ ~isEditMode
    /\ inflight # <<>>
    /\ \E i \in 1..Len(inflight) : inflight[i].newOverlay # EmptyOverlay

\* the lines of seq at the positions outside P, in order, from position i on
RECURSIVE Outside(_, _, _)
Outside(seq, P, i) ==
    IF i > Len(seq) THEN <<>>
    ELSE (IF i \in P THEN <<>> ELSE << seq[i] >>) \o Outside(seq, P, i + 1)

\* C37: applyEditOverlay never drops or duplicates lines: the output has
\* lines(baseline) + length(additions) lines, every addition stands at a
\* position of its own, and without these positions the output is the
\* baseline with the overlay's substitutions, in the original order.
C37_NoLineDroppedOrDuplicated ==
    fnPc = "applied" =>
       LET base == Split(fnBase)
           out  == Split(fnResult)
           sub  == [i \in 1..Len(base) |->
                      IF i \in DOMAIN fnOverlay THEN fnOverlay[i].editedText
                      ELSE base[i]]
       IN /\ Len(out) = Len(base) + Len(fnAdditions)
          /\ \E f \in [1..Len(fnAdditions) -> 1..Len(out)] :
                /\ \A j, k \in 1..Len(fnAdditions) : f[j] = f[k] => j = k
                /\ \A k \in 1..Len(fnAdditions) : out[f[k]] = fnAdditions[k].text
                /\ Outside(out, { f[k] : k \in 1..Len(fnAdditions) }, 1) = sub

C37_Witness ==
    /\ fnPc = "applied"
    /\ Len(fnAdditions) = 2
    /\ fnAdditions[1].afterLine > Lines(fnBase)
    /\ fnAdditions[2].afterLine = 0
    /\ Lines(fnBase) >= 2
    /\ \E n \in DOMAIN fnOverlay : n <= Lines(fnBase) /\ fnOverlay[n].editedText = <<>>
    /\ Lines(fnResult) = Lines(fnBase) + 2
    /\ Split(fnResult)[1] = fnAdditions[2].text

\* a span is opened on the line and not closed: the last marker of the line
\* has an even number of markers before it
Unterminated(text) ==
    \E p \in 1..Len(text) :
       /\ text[p] = "@"
       /\ \A j \in (p + 1)..Len(text) : text[j] # "@"
       /\ Cardinality({ j \in 1..(p - 1) : text[j] = "@" }) % 2 = 0

\* C31: a line whose protected span is opened but not closed never makes
\* assembly fail: the report has a line for every shorthand line, such a
\* line is emitted literally and a note is reported for it, and every other
\* line is assembled as it is on its own, without a note.
C31_UnterminatedSpanLiteral ==
    bePc = "assembledText" =>
       LET ls  == Split(beShorthand)
           out == Split(beReport)
       IN /\ Len(out) = Len(ls)
          /\ \A i \in 1..Len(ls) :
                IF Unterminated(ls[i])
                THEN out[i] = ls[i] /\ i \in beNotes
                ELSE out[i] = AssembleLine(beMappings, ls[i]) /\ i \notin beNotes

C31_Witness ==
    /\ bePc = "assembledText"
    /\ Split(beShorthand) = << <<"a", "1">>, <<"@", "a", "1">>, <<"@", "a", "1", "@">> >>
    /\ Split(beReport) = << <<"S">>, <<"@", "a", "1">>, <<"a", "1">> >>
    /\ beNotes = { 2 }

====
